---- MODULE Spec2Model ----
(***************************************************************************)
(* Near-Earth-object catalog: record model (models.py), loaders            *)
(* (extract.py), filter engine and result limiter (filters.py) and the     *)
(* serializers (write.py).                                                 *)
(*                                                                         *)
(* Each component is a state machine of its own over the shared variable   *)
(* list; a specification initialises the components it does not run to an  *)
(* idle value and never changes them.                                      *)
(***************************************************************************)
EXTENDS Integers, Sequences, FiniteSets, TLC

VARIABLES
    pc,         \* position of the running operation
    \* ---- filter engine (filters.py)
    options,    \* the ten keyword arguments given to create_filters
    filters,    \* the collection create_filters returned
    called,     \* a filter object constructed directly and invoked
    approach,   \* the close approach under evaluation
    pos,        \* how many approaches the query has examined (load order)
    results,    \* load-order positions of the approaches the query yielded
    outcome,    \* outcome of the last call (a value or a raised error)
    \* ---- result limiter (filters.py)
    source,     \* the upstream sequence handed to limit
    n,          \* the cap handed to limit
    mode,       \* what limit returned: the iterator itself or an islice
    pulled,     \* number of elements pulled from the upstream iterator
    cnt,        \* islice's own count of elements it has produced
    out,        \* elements the consumer has received
    \* ---- loaders (extract.py)
    loader,     \* which loader runs
    table,      \* the records of the input file
    idx,        \* number of records the loop has taken from the input
    collection, \* list_of_neo / list_of_ca under construction
    \* ---- serializers (write.py)
    fmt,        \* which writer runs
    wresults,   \* the result sequence handed to the writer
    widx,       \* number of results the loop has taken
    dict_list,  \* write_to_json's list of dictionaries
    file        \* content of the destination file

fvars == <<options, filters, called, approach, pos, results>>
lvars == <<source, n, mode, pulled, cnt, out>>
dvars == <<loader, table, idx, collection>>
wvars == <<fmt, wresults, widx, dict_list, file>>
vars == <<pc, outcome, fvars, lvars, dvars, wvars>>

(***************************************************************************)
(* Bounds of the model.                                                    *)
(***************************************************************************)
MaxDay == 2          \* calendar dates are 0..MaxDay
MaxNum == 1          \* numeric reference values are 0..MaxNum
MaxApproaches == 3   \* approaches a query examines
MaxCriteria == 1     \* non-None options of a query
MaxLen == 3          \* length of the upstream sequence of limit
MaxN == 3            \* largest cap given to limit
MaxRows == 2         \* records of an input file
MaxResults == 2      \* results handed to a writer

(***************************************************************************)
(* Python values.  Every value carries its type, so that the comparison    *)
(* operators can do what Python's do for that type.                        *)
(***************************************************************************)
None == [t |-> "NoneType"]
PyBool(b) == [t |-> "bool", b |-> b]
PyInt(k) == [t |-> "int", i |-> k]
PyStr(s) == [t |-> "str", s |-> s]
PyDate(d) == [t |-> "date", day |-> d]
PyDatetime(d, tod) == [t |-> "datetime", date |-> d, tod |-> tod]
PyFloat(x) == [t |-> "float", nan |-> FALSE, x |-> x]
PyNaN == [t |-> "float", nan |-> TRUE, x |-> 0]

\* The outcome of a call: the value it returns or the error it raises.
Returned(v) == [ret |-> v]
Raised(e) == [exc |-> e]
NoOutcome == [none |-> TRUE]
IsReturn(o) == DOMAIN o = {"ret"}
IsRaise(o) == DOMAIN o = {"exc"}

IsNaN(x) == x.t = "float" /\ x.nan

\* Values that compare with each other: those of one type, and the numbers
\* (a bool is the integer 0 or 1).
Comparable(a, b) == a.t = b.t \/ {a.t, b.t} \subseteq {"bool", "int", "float"}

\* Types whose values are ordered (of those the filters meet).
Orderable(a) == a.t \in {"bool", "int", "float", "date", "datetime"}

\* The number a value is ordered by.
Ord(x) ==
    CASE x.t = "bool"  -> (IF x.b THEN 1 ELSE 0)
      [] x.t = "int"   -> x.i
      [] x.t = "float" -> x.x
      [] x.t = "date"  -> x.day

\* a <= b for two comparable, orderable values; a datetime is ordered by its
\* date, then by its time of day.
LessOrEqual(a, b) ==
    IF a.t = "datetime"
    THEN a.date < b.date \/ (a.date = b.date /\ a.tod <= b.tod)
    ELSE Ord(a) <= Ord(b)

\* operator.eq / operator.ge / operator.le.  A comparison with a not-a-number
\* operand is false (IEEE 754).  Values that do not compare are unequal, and
\* ordering them is a TypeError.
operator_eq(a, b) ==
    IF ~Comparable(a, b) THEN Returned(FALSE)
    ELSE IF a.t = b.t /\ a.t # "float" THEN Returned(a = b)
    ELSE Returned(~IsNaN(a) /\ ~IsNaN(b) /\ Ord(a) = Ord(b))

operator_ge(a, b) ==
    IF ~Comparable(a, b) \/ ~Orderable(a) THEN Raised("TypeError")
    ELSE Returned(~IsNaN(a) /\ ~IsNaN(b) /\ LessOrEqual(b, a))

operator_le(a, b) ==
    IF ~Comparable(a, b) \/ ~Orderable(a) THEN Raised("TypeError")
    ELSE Returned(~IsNaN(a) /\ ~IsNaN(b) /\ LessOrEqual(a, b))

ApplyOp(op, a, b) ==
    CASE op = "eq" -> operator_eq(a, b)
      [] op = "ge" -> operator_ge(a, b)
      [] op = "le" -> operator_le(a, b)

(***************************************************************************)
(* Text fields of the input files are sequences of characters.             *)
(***************************************************************************)
Digits == {"0", "1", "2", "3", "4", "5", "6", "7", "8", "9"}

DigitValue(c) ==
    CASE c = "0" -> 0 [] c = "1" -> 1 [] c = "2" -> 2 [] c = "3" -> 3
      [] c = "4" -> 4 [] c = "5" -> 5 [] c = "6" -> 6 [] c = "7" -> 7
      [] c = "8" -> 8 [] c = "9" -> 9

RECURSIVE DecimalValue(_)
DecimalValue(s) ==
    IF s = <<>> THEN 0
    ELSE 10 * DecimalValue(SubSeq(s, 1, Len(s) - 1)) + DigitValue(s[Len(s)])

IsNumeric(s) == Len(s) > 0 /\ \A i \in 1..Len(s) : s[i] \in Digits

\* float(text), on texts of decimal digits and letters: a text of digits is
\* its decimal value, anything else (the empty text included) a ValueError.
float(s) ==
    IF IsNumeric(s) THEN Returned(PyFloat(DecimalValue(s)))
    ELSE Raised("ValueError")

\* helpers.cd_to_datetime: the timestamp text of an entry, a calendar date
\* and a time of day, parsed into a datetime.
cd_to_datetime(cd) == PyDatetime(cd.date, cd.tod)

\* datetime.date(): the timestamp truncated to its calendar date.
date_of(time) == PyDate(time.date)

(***************************************************************************)
(* models.py                                                               *)
(***************************************************************************)
\* A slip of the pen: an unknown diameter stored as 0.0.
NearEarthObject_zero_diameter(info) ==
    LET name == IF info.name = <<>> THEN None
                ELSE PyStr(info.name)
        diameter == IF info.diameter = <<>> THEN Returned(PyFloat(0))
                    ELSE float(info.diameter)
        hazardous == IF info.pha = <<"Y">> THEN PyBool(TRUE)
                     ELSE PyBool(FALSE)
    IN  IF IsRaise(diameter) THEN diameter
        ELSE Returned([designation |-> info.pdes,
                       name        |-> name,
                       diameter    |-> diameter.ret,
                       hazardous   |-> hazardous,
                       approaches  |-> <<>>])

\* NearEarthObject(**info): info is a row of the table, a record of texts.
NearEarthObject(info) ==
    LET name == IF info.name = <<>> THEN None
                ELSE PyStr(info.name)
        diameter == IF info.diameter = <<>> THEN Returned(PyNaN)
                    ELSE float(info.diameter)
        hazardous == IF info.pha = <<"Y">> THEN PyBool(TRUE)
                     ELSE PyBool(FALSE)
    IN  IF IsRaise(diameter) THEN diameter
        ELSE Returned([designation |-> info.pdes,
                       name        |-> name,
                       diameter    |-> diameter.ret,
                       hazardous   |-> hazardous,
                       approaches  |-> <<>>])

\* CloseApproach(info): info is an entry of the document, a tuple of fields;
\* Python's info[0], info[3], info[4], info[7] are info[1], info[4], info[5],
\* info[8] here.
CloseApproach(info) ==
    LET time == cd_to_datetime(info[4])
        distance == float(info[5])
        velocity == float(info[8])
    IN  IF IsRaise(distance) THEN distance
        ELSE IF IsRaise(velocity) THEN velocity
        ELSE Returned([designation |-> info[1],
                       time        |-> time,
                       distance    |-> distance.ret,
                       velocity    |-> velocity.ret,
                       neo         |-> None])

\* The join of the catalog: the approach's neo reference is resolved.
Joined(a, neo) == [a EXCEPT !.neo = neo]

(***************************************************************************)
(* filters.py: the filter classes                                          *)
(***************************************************************************)
\* A filter object: its class, its operator and its reference value.
Filter(cls, op, value) == [cls |-> cls, op |-> op, value |-> value]

\* A slip of the pen: the base class returns nothing instead of raising.
AttributeFilter_get_none(a) == Returned(None)

AttributeFilter_get(a) == Raised("UnsupportedCriterionError")

\* A slip of the pen: the timestamp compared without truncation to its date.
DateFilter_get_untruncated(a) == Returned(a.time)

DateFilter_get(a) == Returned(date_of(a.time))

DistanceFilter_get(a) == Returned(a.distance)

VelocityFilter_get(a) == Returned(a.velocity)

DiameterFilter_get(a) ==
    IF a.neo = None THEN Raised("AttributeError") ELSE Returned(a.neo.diameter)

HazardousFilter_get(a) ==
    IF a.neo = None THEN Raised("AttributeError") ELSE Returned(a.neo.hazardous)

\* self.get(approach): the get of the filter's class.
get(cls, a) ==
    CASE cls = "AttributeFilter" -> AttributeFilter_get(a)
      [] cls = "DateFilter"      -> DateFilter_get(a)
      [] cls = "DistanceFilter"  -> DistanceFilter_get(a)
      [] cls = "VelocityFilter"  -> VelocityFilter_get(a)
      [] cls = "DiameterFilter"  -> DiameterFilter_get(a)
      [] cls = "HazardousFilter" -> HazardousFilter_get(a)

\* AttributeFilter.__call__: self.op(self.get(approach), self.value).
Call(f, a) ==
    LET x == get(f.cls, a)
    IN  IF IsRaise(x) THEN x ELSE ApplyOp(f.op, x.ret, f.value)

(***************************************************************************)
(* filters.py: create_filters                                              *)
(***************************************************************************)
OptionNames == {"date", "start_date", "end_date", "distance_min",
                "distance_max", "velocity_min", "velocity_max",
                "diameter_min", "diameter_max", "hazardous"}

\* create_filters() with no arguments: every option has its default, None.
NoOptions == [o \in OptionNames |-> None]

\* `if option is not None: filters.add(cls(op, option))`
AddIfGiven(option, cls, op) ==
    IF option # None THEN {Filter(cls, op, option)} ELSE {}

\* A slip of the pen: end_date built with the operator of start_date.
create_filters_same_op(o) ==
         AddIfGiven(o.date,         "DateFilter",      "eq")
    \cup AddIfGiven(o.start_date,   "DateFilter",      "ge")
    \cup AddIfGiven(o.end_date,     "DateFilter",      "ge")
    \cup AddIfGiven(o.distance_min, "DistanceFilter",  "ge")
    \cup AddIfGiven(o.distance_max, "DistanceFilter",  "le")
    \cup AddIfGiven(o.velocity_min, "VelocityFilter",  "ge")
    \cup AddIfGiven(o.velocity_max, "VelocityFilter",  "le")
    \cup AddIfGiven(o.diameter_min, "DiameterFilter",  "ge")
    \cup AddIfGiven(o.diameter_max, "DiameterFilter",  "le")
    \cup AddIfGiven(o.hazardous,    "HazardousFilter", "eq")

\* A slip of the pen: `if hazardous:` in place of `if hazardous is not None:`.
create_filters_truthy(o) ==
         AddIfGiven(o.date,         "DateFilter",      "eq")
    \cup AddIfGiven(o.start_date,   "DateFilter",      "ge")
    \cup AddIfGiven(o.end_date,     "DateFilter",      "le")
    \cup AddIfGiven(o.distance_min, "DistanceFilter",  "ge")
    \cup AddIfGiven(o.distance_max, "DistanceFilter",  "le")
    \cup AddIfGiven(o.velocity_min, "VelocityFilter",  "ge")
    \cup AddIfGiven(o.velocity_max, "VelocityFilter",  "le")
    \cup AddIfGiven(o.diameter_min, "DiameterFilter",  "ge")
    \cup AddIfGiven(o.diameter_max, "DiameterFilter",  "le")
    \cup (IF o.hazardous = PyBool(TRUE)
          THEN {Filter("HazardousFilter", "eq", o.hazardous)} ELSE {})

create_filters(o) ==
         AddIfGiven(o.date,         "DateFilter",      "eq")
    \cup AddIfGiven(o.start_date,   "DateFilter",      "ge")
    \cup AddIfGiven(o.end_date,     "DateFilter",      "le")
    \cup AddIfGiven(o.distance_min, "DistanceFilter",  "ge")
    \cup AddIfGiven(o.distance_max, "DistanceFilter",  "le")
    \cup AddIfGiven(o.velocity_min, "VelocityFilter",  "ge")
    \cup AddIfGiven(o.velocity_max, "VelocityFilter",  "le")
    \cup AddIfGiven(o.diameter_min, "DiameterFilter",  "ge")
    \cup AddIfGiven(o.diameter_max, "DiameterFilter",  "le")
    \cup AddIfGiven(o.hazardous,    "HazardousFilter", "eq")

(***************************************************************************)
(* Inputs of the filter engine.                                            *)
(***************************************************************************)
Dates == {PyDate(d) : d \in 0..MaxDay}
Numbers == {PyFloat(x) : x \in 0..MaxNum}
Booleans == {PyBool(b) : b \in BOOLEAN}

OptionValues(name) ==
    CASE name \in {"date", "start_date", "end_date"} -> Dates
      [] name = "hazardous" -> Booleans
      [] OTHER -> Numbers

\* Every way of giving the ten options: each is None or a value of its type.
AllOptions ==
    [date : Dates \cup {None}, start_date : Dates \cup {None},
     end_date : Dates \cup {None},
     distance_min : Numbers \cup {None}, distance_max : Numbers \cup {None},
     velocity_min : Numbers \cup {None}, velocity_max : Numbers \cup {None},
     diameter_min : Numbers \cup {None}, diameter_max : Numbers \cup {None},
     hazardous : Booleans \cup {None}]

Given(o) == {name \in OptionNames : o[name] # None}

\* The state of the components that do not run.
IdleFilters ==
    /\ options = NoOptions /\ filters = {} /\ called = None
    /\ approach = None /\ pos = 0 /\ results = <<>>
IdleLimit ==
    /\ source = <<>> /\ n = None /\ mode = [kind |-> "none", stop |-> 0]
    /\ pulled = 0 /\ cnt = 0 /\ out = <<>>
IdleLoad ==
    /\ loader = "none" /\ table = <<>> /\ idx = 0 /\ collection = <<>>
IdleWrite ==
    /\ fmt = "none" /\ wresults = <<>> /\ widx = 0 /\ dict_list = <<>>
    /\ file = <<>>

(***************************************************************************)
(* create_filters called with every combination of options.                *)
(***************************************************************************)
InitCreate ==
    /\ pc = "start"
    /\ outcome = NoOutcome
    /\ options \in AllOptions
    /\ filters = {} /\ called = None /\ approach = None /\ pos = 0
    /\ results = <<>>
    /\ IdleLimit /\ IdleLoad /\ IdleWrite

CreateFilters ==
    /\ pc = "start"
    /\ filters' = create_filters(options)
    /\ pc' = "created"
    /\ UNCHANGED <<options, called, approach, pos, results, outcome,
                   lvars, dvars, wvars>>

NextCreate == CreateFilters

SpecCreate == InitCreate /\ [][NextCreate]_vars

\* The filter an option must give, by its name.
ExpectedClass(name) ==
    CASE name \in {"date", "start_date", "end_date"} -> "DateFilter"
      [] name \in {"distance_min", "distance_max"} -> "DistanceFilter"
      [] name \in {"velocity_min", "velocity_max"} -> "VelocityFilter"
      [] name \in {"diameter_min", "diameter_max"} -> "DiameterFilter"
      [] name = "hazardous" -> "HazardousFilter"

ExpectedOp(name) ==
    CASE name \in {"date", "hazardous"} -> "eq"
      [] name \in {"start_date", "distance_min", "velocity_min",
                   "diameter_min"} -> "ge"
      [] name \in {"end_date", "distance_max", "velocity_max",
                   "diameter_max"} -> "le"

\* C1: create_filters returns exactly one filter per non-None option, of the
\* class and operator the option's name implies and with the option's value as
\* reference value, and nothing else; with no option given it returns an empty
\* collection.
C1_OneFilterPerOption ==
    pc = "created" =>
        /\ \A name \in Given(options) :
               Filter(ExpectedClass(name), ExpectedOp(name), options[name])
                   \in filters
        /\ \A f \in filters : \E name \in Given(options) :
               f = Filter(ExpectedClass(name), ExpectedOp(name), options[name])
        /\ Cardinality(filters) = Cardinality(Given(options))
        /\ (options = NoOptions => filters = {})

C1_Witness ==
    /\ pc = "created"
    /\ Given(options) = OptionNames
    /\ Cardinality(filters) = 10

(***************************************************************************)
(* The catalog a query runs over: close approaches joined to their NEOs,   *)
(* each built by the constructors of models.py from a record of the input. *)
(***************************************************************************)
TimesOfDay == {0, 1}
NumberTexts == {<<"0">>, <<"1">>}

QueryRows ==
    [pdes : {<<"a">>}, name : {<<>>},
     diameter : NumberTexts \cup {<<>>}, pha : {<<"Y">>, <<"N">>}]

Entry(des, cd, dist, v_rel) == <<des, <<>>, <<>>, cd, dist, <<>>, <<>>, v_rel>>

QueryEntries ==
    {Entry(<<"a">>, [date |-> d, tod |-> k], dist, v_rel) :
        d \in 0..MaxDay, k \in TimesOfDay,
        dist \in NumberTexts, v_rel \in NumberTexts}

UnjoinedApproaches == {CloseApproach(e).ret : e \in QueryEntries}

JoinedApproaches ==
    {Joined(a, NearEarthObject(r).ret) : a \in UnjoinedApproaches, r \in QueryRows}

\* The options of a query: at most MaxCriteria of the ten are given.
RECURSIVE OptionsWith(_)
OptionsWith(k) ==
    IF k = 0 THEN {NoOptions}
    ELSE LET less == OptionsWith(k - 1)
         IN  less \cup UNION {{[o EXCEPT ![name] = v] : v \in OptionValues(name)} :
                                 o \in less, name \in OptionNames}

QueryOptions == OptionsWith(MaxCriteria)

\* all(f(approach) for f in filters): true when every filter returns true;
\* false when a filter returns false; the error of a filter that raises.  The
\* collection has no defined order and all() stops at the first false, so a
\* false and an error may both be the outcome.
QueryVerdicts(fs, a) ==
    IF \A f \in fs : Call(f, a) = Returned(TRUE) THEN {Returned(TRUE)}
    ELSE {Returned(FALSE) : f \in {g \in fs : Call(g, a) = Returned(FALSE)}}
         \cup {Call(f, a) : f \in {g \in fs : IsRaise(Call(g, a))}}

InitQuery ==
    /\ pc = "start"
    /\ outcome = NoOutcome
    /\ options \in QueryOptions
    /\ filters = {} /\ called = None /\ approach = None /\ pos = 0
    /\ results = <<>>
    /\ IdleLimit /\ IdleLoad /\ IdleWrite

\* One turn of the query's loop: it takes the next approach of the catalog,
\* in load order, and yields it when every filter accepts it.
QueryStep ==
    /\ pc = "created"
    /\ approach = None
    /\ pos < MaxApproaches
    /\ \E a \in JoinedApproaches : \E verdict \in QueryVerdicts(filters, a) :
        /\ approach' = a
        /\ pos' = pos + 1
        /\ outcome' = verdict
        /\ results' = IF verdict = Returned(TRUE)
                      THEN Append(results, pos + 1) ELSE results
        /\ pc' = IF IsRaise(verdict) THEN "raised" ELSE "created"
    /\ UNCHANGED <<options, filters, called, lvars, dvars, wvars>>

\* The loop goes on to its next turn: the approach of this turn is let go.
Advance ==
    /\ pc = "created"
    /\ approach # None
    /\ approach' = None
    /\ outcome' = NoOutcome
    /\ UNCHANGED <<pc, options, filters, called, pos, results,
                   lvars, dvars, wvars>>

NextQuery == CreateFilters \/ QueryStep \/ Advance

SpecQuery == InitQuery /\ [][NextQuery]_vars

Range(seq) == {seq[i] : i \in 1..Len(seq)}

\* The approach examined last was yielded.
Kept == pos \in Range(results)

\* A turn of the loop has just examined `approach`.
Examined == approach # None /\ pc \in {"created", "raised"}

Increasing(seq) == \A i, j \in 1..Len(seq) : i < j => seq[i] < seq[j]

\* C2: with create_filters(hazardous=False) the query keeps exactly the
\* approaches whose NEO is not hazardous; with create_filters(hazardous=None)
\* it keeps every approach.
C2_HazardousFalseIsACriterion ==
    Examined =>
        /\ options = [NoOptions EXCEPT !.hazardous = PyBool(FALSE)] =>
               /\ pc = "created"
               /\ Kept <=> approach.neo.hazardous = PyBool(FALSE)
        /\ options = NoOptions =>
               /\ pc = "created"
               /\ Kept
               /\ results = [i \in 1..pos |-> i]

\* A hazardous approach was dropped after a non-hazardous one was kept.
C2_Witness ==
    /\ Examined
    /\ options = [NoOptions EXCEPT !.hazardous = PyBool(FALSE)]
    /\ approach.neo.hazardous = PyBool(TRUE)
    /\ pos = 2
    /\ results = <<1>>

\* C9: with create_filters(start_date=D) the query keeps exactly the
\* approaches whose calendar date is on or after D, whatever their time of
\* day, in load order.
C9_StartDateByCalendarDate ==
    Examined =>
        \A D \in Dates :
            options = [NoOptions EXCEPT !.start_date = D] =>
                /\ pc = "created"
                /\ Kept <=> approach.time.date >= D.day
                /\ Increasing(results)

\* Three approaches on dates 0, 1 and 2 with start_date=1: the last two were
\* kept, in load order.
C9_Witness ==
    /\ Examined
    /\ options = [NoOptions EXCEPT !.start_date = PyDate(1)]
    /\ approach.time = PyDatetime(2, 1)
    /\ pos = 3
    /\ results = <<2, 3>>

\* C10: an approach whose NEO was loaded with an empty diameter fails every
\* diameter criterion, whatever the reference value: a query with a diameter
\* bound drops it, and a query without one treats it as it treats the same
\* approach with a known diameter.
C10_UnknownDiameterFailsDiameterBounds ==
    Examined =>
        \A r \in QueryRows :
            (r.diameter = <<>> /\ approach.neo = NearEarthObject(r).ret) =>
                /\ \A v \in Numbers :
                       /\ Call(Filter("DiameterFilter", "ge", v), approach)
                              = Returned(FALSE)
                       /\ Call(Filter("DiameterFilter", "le", v), approach)
                              = Returned(FALSE)
                /\ Given(options) \cap {"diameter_min", "diameter_max"} # {}
                       => ~Kept
                /\ Given(options) \cap {"diameter_min", "diameter_max"} = {}
                       => (Kept <=> \A f \in filters :
                               Call(f, [approach EXCEPT
                                           !.neo.diameter = PyFloat(0)])
                                   = Returned(TRUE))
                /\ options = NoOptions => Kept

\* An approach of a NEO of unknown diameter was dropped by diameter_min=0,
\* which every known diameter satisfies.
C10_Witness ==
    /\ Examined
    /\ options = [NoOptions EXCEPT !.diameter_min = PyFloat(0)]
    /\ approach.neo.diameter = PyNaN
    /\ ~Kept

(***************************************************************************)
(* A filter object constructed directly from any class and invoked.        *)
(***************************************************************************)
FilterClasses == {"AttributeFilter", "DateFilter", "DistanceFilter",
                  "VelocityFilter", "DiameterFilter", "HazardousFilter"}
Operators == {"eq", "ge", "le"}
ReferenceValues == Dates \cup Numbers \cup Booleans \cup {None}

InitCall ==
    /\ pc = "start"
    /\ outcome = NoOutcome
    /\ IdleFilters /\ IdleLimit /\ IdleLoad /\ IdleWrite

\* cls(op, value): AttributeFilter.__init__, which every class inherits.
Construct ==
    /\ pc = "start"
    /\ \E cls \in FilterClasses, op \in Operators, value \in ReferenceValues :
           called' = Filter(cls, op, value)
    /\ pc' = "constructed"
    /\ UNCHANGED <<options, filters, approach, pos, results, outcome,
                   lvars, dvars, wvars>>

\* called(approach), on an approach before or after the join.
Invoke ==
    /\ pc = "constructed"
    /\ \E a \in JoinedApproaches \cup UnjoinedApproaches :
        /\ approach' = a
        /\ outcome' = Call(called, a)
    /\ pc' = "called"
    /\ UNCHANGED <<options, filters, called, pos, results, lvars, dvars, wvars>>

NextCall == Construct \/ Invoke

SpecCall == InitCall /\ [][NextCall]_vars

\* C5: invoking a filter of the base class AttributeFilter, with any operator,
\* reference value and approach, raises UnsupportedCriterionError: it returns
\* neither true nor false and raises no other error.
C5_BaseFilterRaisesUnsupported ==
    (pc = "called" /\ called.cls = "AttributeFilter") =>
        outcome = Raised("UnsupportedCriterionError")

C5_Witness ==
    /\ pc = "called"
    /\ called = Filter("AttributeFilter", "eq", None)
    /\ approach \in JoinedApproaches
    /\ outcome = Raised("UnsupportedCriterionError")

(***************************************************************************)
(* filters.py: limit                                                       *)
(***************************************************************************)
\* A slip of the pen: the slice one element too long.
limit_one_more(cap) ==
    IF cap = None \/ cap = PyInt(0) THEN [kind |-> "iterator", stop |-> 0]
    ELSE [kind |-> "islice", stop |-> cap.i + 1]

\* A slip of the pen: `if n is None:` in place of `if n is None or n == 0:`.
limit_none_only(cap) ==
    IF cap = None THEN [kind |-> "iterator", stop |-> 0]
    ELSE [kind |-> "islice", stop |-> cap.i]

\* limit(iterator, n): the iterator itself, or itertools.islice(iterator, n).
limit(cap) ==
    IF cap = None \/ cap = PyInt(0) THEN [kind |-> "iterator", stop |-> 0]
    ELSE [kind |-> "islice", stop |-> cap.i]

Items == {"x", "y"}

SeqsUpTo(S, k) == UNION {[1..m -> S] : m \in 0..k}

Caps == {None} \cup {PyInt(k) : k \in 0..MaxN}

InitLimit ==
    /\ pc = "start"
    /\ outcome = NoOutcome
    /\ source \in SeqsUpTo(Items, MaxLen)
    /\ n \in Caps
    /\ mode = [kind |-> "none", stop |-> 0] /\ pulled = 0 /\ cnt = 0 /\ out = <<>>
    /\ IdleFilters /\ IdleLoad /\ IdleWrite

Limit ==
    /\ pc = "start"
    /\ mode' = limit(n)
    /\ pc' = "iterating"
    /\ UNCHANGED <<outcome, fvars, source, n, pulled, cnt, out, dvars, wvars>>

\* next() on the upstream iterator that limit returned as it is.
NextOfIterator ==
    /\ pc = "iterating"
    /\ mode.kind = "iterator"
    /\ IF pulled < Len(source)
       THEN /\ pulled' = pulled + 1
            /\ out' = Append(out, source[pulled + 1])
            /\ pc' = pc
       ELSE /\ pc' = "exhausted"
            /\ UNCHANGED <<pulled, out>>
    /\ UNCHANGED <<outcome, fvars, source, n, mode, cnt, dvars, wvars>>

\* next() on the islice: it stops, without asking upstream, once it has
\* produced `stop` elements; otherwise it pulls one element from upstream and
\* stops when upstream has none.
NextOfIslice ==
    /\ pc = "iterating"
    /\ mode.kind = "islice"
    /\ IF cnt >= mode.stop
       THEN /\ pc' = "exhausted"
            /\ UNCHANGED <<pulled, cnt, out>>
       ELSE IF pulled < Len(source)
       THEN /\ pulled' = pulled + 1
            /\ cnt' = cnt + 1
            /\ out' = Append(out, source[pulled + 1])
            /\ pc' = pc
       ELSE /\ pc' = "exhausted"
            /\ UNCHANGED <<pulled, cnt, out>>
    /\ UNCHANGED <<outcome, fvars, source, n, mode, dvars, wvars>>

NextLimit == Limit \/ NextOfIterator \/ NextOfIslice

SpecLimit == InitLimit /\ [][NextLimit]_vars

Min(a, b) == IF a <= b THEN a ELSE b

\* C3: for a positive cap N, consuming limit(sequence, N) yields the first
\* min(N, L) elements in order, and never more than N elements have been
\* pulled from the upstream sequence.
C3_LimitYieldsFirstN ==
    (pc # "start" /\ n # None /\ n # PyInt(0)) =>
        /\ pulled <= n.i
        /\ out = SubSeq(source, 1, pulled)
        /\ pc = "exhausted" => out = SubSeq(source, 1, Min(n.i, Len(source)))

\* A cap of 2 on three elements: two were yielded, the third never pulled.
C3_Witness ==
    /\ pc = "exhausted"
    /\ n = PyInt(2)
    /\ Len(source) = 3
    /\ out = SubSeq(source, 1, 2)
    /\ pulled = 2

\* C4: limit(sequence, 0) and limit(sequence, None) return the sequence
\* itself: consuming the result yields every element, in order.
C4_ZeroAndNoneDoNotLimit ==
    (pc # "start" /\ (n = None \/ n = PyInt(0))) =>
        /\ mode.kind = "iterator"
        /\ out = SubSeq(source, 1, pulled)
        /\ pc = "exhausted" => out = source

C4_Witness ==
    /\ pc = "exhausted"
    /\ n = PyInt(0)
    /\ Len(source) = 3
    /\ out = source

(***************************************************************************)
(* extract.py: load_neos and load_approaches                               *)
(***************************************************************************)
LoadRows ==
    [pdes : {<<>>, <<"a">>, <<"b">>}, name : {<<>>, <<"n">>},
     diameter : {<<>>, <<"1">>, <<"x">>}, pha : {<<"Y">>, <<"N">>}]

LoadEntries ==
    {Entry(des, [date |-> 0, tod |-> k], dist, v_rel) :
        des \in {<<"a">>, <<"b">>}, k \in TimesOfDay,
        dist \in NumberTexts \cup {<<"x">>},
        v_rel \in NumberTexts \cup {<<"x">>}}

InitLoad ==
    /\ pc = "reading"
    /\ outcome = NoOutcome
    /\ \/ loader = "load_neos" /\ table \in SeqsUpTo(LoadRows, MaxRows)
       \/ loader = "load_approaches" /\ table \in SeqsUpTo(LoadEntries, MaxRows)
    /\ idx = 0
    /\ collection = <<>>
    /\ IdleFilters /\ IdleLimit /\ IdleWrite

\* One turn of a loader's loop: the next record is constructed and appended;
\* an error of the constructor leaves the loop and the function.
LoadRecord(made) ==
    /\ idx' = idx + 1
    /\ IF IsRaise(made)
       THEN /\ pc' = "raised"
            /\ outcome' = made
            /\ UNCHANGED collection
       ELSE /\ collection' = Append(collection, made.ret)
            /\ UNCHANGED <<pc, outcome>>
    /\ UNCHANGED <<fvars, lvars, loader, table, wvars>>

\* A loader tolerant of bad records: it skips them and goes on.
SkipBadRecord(made) ==
    /\ idx' = idx + 1
    /\ collection' = IF IsRaise(made) THEN collection
                     ELSE Append(collection, made.ret)
    /\ UNCHANGED <<pc, outcome, fvars, lvars, loader, table, wvars>>

load_neos_skipping ==
    /\ pc = "reading" /\ loader = "load_neos" /\ idx < Len(table)
    /\ SkipBadRecord(NearEarthObject(table[idx + 1]))

load_neos_record ==
    /\ pc = "reading" /\ loader = "load_neos" /\ idx < Len(table)
    /\ LoadRecord(NearEarthObject(table[idx + 1]))

load_approaches_record ==
    /\ pc = "reading" /\ loader = "load_approaches" /\ idx < Len(table)
    /\ LoadRecord(CloseApproach(table[idx + 1]))

\* `return list_of_neo` / `return list_of_ca`, after the last record.
load_return ==
    /\ pc = "reading" /\ loader # "none" /\ idx = Len(table)
    /\ pc' = "returned"
    /\ outcome' = Returned(collection)
    /\ UNCHANGED <<fvars, lvars, dvars, wvars>>

NextLoad == load_neos_record \/ load_approaches_record \/ load_return

SpecLoad == InitLoad /\ [][NextLoad]_vars

\* C6: load_neos returns objects with non-empty, pairwise different
\* designations, whatever the table holds.
C6_DesignationsNonEmptyAndUnique ==
    (pc = "returned" /\ loader = "load_neos") =>
        /\ \A i \in 1..Len(outcome.ret) : outcome.ret[i].designation # <<>>
        /\ \A i, j \in 1..Len(outcome.ret) :
               i # j => outcome.ret[i].designation # outcome.ret[j].designation

\* A record with a malformed numeric field.
Malformed(record) ==
    IF loader = "load_neos"
    THEN record.diameter # <<>> /\ ~IsNumeric(record.diameter)
    ELSE ~IsNumeric(record[5]) \/ ~IsNumeric(record[8])

BadRecords == {i \in 1..Len(table) : Malformed(table[i])}

FirstBad == CHOOSE i \in BadRecords : \A j \in BadRecords : i <= j

\* C7: a record with a malformed numeric field makes the load fail with an
\* error and return no collection, wherever it sits: the records before it
\* are not returned and the records after it are not processed.
C7_BadRecordAbortsLoad ==
    (loader # "none" /\ BadRecords # {}) =>
        /\ pc # "returned"
        /\ ~IsReturn(outcome)
        /\ idx <= FirstBad
        /\ idx = FirstBad => (pc = "raised" /\ outcome = Raised("ValueError"))

\* The second of two close approaches is malformed: the first was built, and
\* the caller gets the error.
C7_Witness ==
    /\ loader = "load_approaches"
    /\ Len(table) = 2
    /\ BadRecords = {2}
    /\ pc = "raised"
    /\ Len(collection) = 1
    /\ outcome = Raised("ValueError")

(***************************************************************************)
(* write.py: write_to_csv and write_to_json                                *)
(***************************************************************************)
fieldnames == <<"datetime_utc", "distance_au", "velocity_km_s", "designation",
                "name", "diameter_km", "potentially_hazardous">>

\* helpers.datetime_to_str: the timestamp in its human format.
datetime_to_str(time) == PyStr(<<time.date, time.tod>>)

\* The row write_to_csv builds from an approach; reading a field of a NEO
\* that the approach does not have is an AttributeError.
csv_row(a) ==
    IF a.neo = None THEN Raised("AttributeError")
    ELSE Returned(<<a.time, a.distance, a.velocity, a.neo.designation,
                    a.neo.name, a.neo.diameter, a.neo.hazardous>>)

\* The dictionary write_to_json builds from an approach.
json_dictionary(a) ==
    IF a.neo = None THEN Raised("AttributeError")
    ELSE Returned([datetime_utc  |-> datetime_to_str(a.time),
                   distance_au   |-> a.distance,
                   velocity_km_s |-> a.velocity,
                   neo |-> [designation |-> a.neo.designation,
                            name |-> a.neo.name,
                            diameter_km |-> a.neo.diameter,
                            potentially_hazardous |-> a.neo.hazardous]])

\* The destination: absent, or a complete file of an earlier run.
NoFile == [exists |-> FALSE, content |-> <<>>]
EarlierFile == [exists |-> TRUE, content |-> <<"earlier">>]
InitialFiles == {NoFile, EarlierFile}

WriteRows ==
    [pdes : {<<"a">>}, name : {<<>>, <<"n">>},
     diameter : {<<>>, <<"1">>}, pha : {<<"Y">>}]

WriteEntries ==
    {Entry(<<"a">>, [date |-> 0, tod |-> k], <<"1">>, <<"1">>) : k \in TimesOfDay}

\* The results of a query, and approaches that were never joined to a NEO.
WriteApproaches ==
    LET made == {CloseApproach(e).ret : e \in WriteEntries}
    IN  made \cup {Joined(a, NearEarthObject(r).ret) : a \in made, r \in WriteRows}

InitWrite ==
    /\ pc = "start"
    /\ outcome = NoOutcome
    /\ fmt \in {"csv", "json"}
    /\ wresults \in SeqsUpTo(WriteApproaches, MaxResults)
    /\ widx = 0
    /\ dict_list = <<>>
    /\ file \in InitialFiles
    /\ IdleFilters /\ IdleLimit /\ IdleLoad

\* open(filename, 'w') creates or truncates the destination; the header row
\* follows.
write_to_csv_open ==
    /\ pc = "start" /\ fmt = "csv"
    /\ file' = [exists |-> TRUE, content |-> <<fieldnames>>]
    /\ pc' = "writing"
    /\ UNCHANGED <<outcome, fvars, lvars, dvars, fmt, wresults, widx, dict_list>>

\* One turn of the loop; an error leaves the `with` block, which closes the
\* file with what was written.
write_to_csv_row ==
    /\ pc = "writing" /\ fmt = "csv" /\ widx < Len(wresults)
    /\ LET row == csv_row(wresults[widx + 1])
       IN  /\ widx' = widx + 1
           /\ IF IsRaise(row)
              THEN /\ pc' = "raised"
                   /\ outcome' = row
                   /\ UNCHANGED file
              ELSE /\ file' = [file EXCEPT !.content = Append(@, row.ret)]
                   /\ UNCHANGED <<pc, outcome>>
    /\ UNCHANGED <<fvars, lvars, dvars, fmt, wresults, dict_list>>

write_to_csv_close ==
    /\ pc = "writing" /\ fmt = "csv" /\ widx = Len(wresults)
    /\ pc' = "done"
    /\ outcome' = Returned(None)
    /\ UNCHANGED <<fvars, lvars, dvars, wvars>>

write_to_json_open ==
    /\ pc = "start" /\ fmt = "json"
    /\ file' = [exists |-> TRUE, content |-> <<>>]
    /\ dict_list' = <<>>
    /\ pc' = "writing"
    /\ UNCHANGED <<outcome, fvars, lvars, dvars, fmt, wresults, widx>>

write_to_json_record ==
    /\ pc = "writing" /\ fmt = "json" /\ widx < Len(wresults)
    /\ LET dictionary == json_dictionary(wresults[widx + 1])
       IN  /\ widx' = widx + 1
           /\ IF IsRaise(dictionary)
              THEN /\ pc' = "raised"
                   /\ outcome' = dictionary
                   /\ UNCHANGED dict_list
              ELSE /\ dict_list' = Append(dict_list, dictionary.ret)
                   /\ UNCHANGED <<pc, outcome>>
    /\ UNCHANGED <<fvars, lvars, dvars, fmt, wresults, file>>

\* json.dump(dict_list, outfile, indent=2), after the last result.
write_to_json_dump ==
    /\ pc = "writing" /\ fmt = "json" /\ widx = Len(wresults)
    /\ file' = [exists |-> TRUE, content |-> <<dict_list>>]
    /\ pc' = "done"
    /\ outcome' = Returned(None)
    /\ UNCHANGED <<fvars, lvars, dvars, fmt, wresults, widx, dict_list>>

NextWrite ==
    \/ write_to_csv_open \/ write_to_csv_row \/ write_to_csv_close
    \/ write_to_json_open \/ write_to_json_record \/ write_to_json_dump

SpecWrite == InitWrite /\ [][NextWrite]_vars

\* C8: when a record raises while a writer consumes the results, the
\* destination is left as it was before the call: it holds neither the header
\* with the rows written so far nor an empty document.
C8_NoPartialFile ==
    pc = "raised" => file \in InitialFiles

====
